---- MODULE Spec2Model ----
(***************************************************************************)
(* Boda-Box: crash detection (useSensorFusion), the Armed / Confirming /   *)
(* Triggered state machine (BodaBox and its three views), the evidence     *)
(* capture run in Triggered, and the offline queue (useOfflineQueue and    *)
(* sendEmergencySMS).                                                      *)
(*                                                                         *)
(* Four specifications share the variables below:                          *)
(*   SpecDetector  analyzeBuffer applied to buffers the hook can hold      *)
(*   SpecSensor    the useSensorFusion hook with its full-size buffer      *)
(*   SpecQueue     the useOfflineQueue hook and sendEmergencySMS           *)
(*   Spec          the BodaBox component tree                              *)
(***************************************************************************)
EXTENDS Integers, Sequences, FiniteSets, TLC

\* ------------------------------------------------------------------------
\* Program constants (useSensorFusion.ts)
\* ------------------------------------------------------------------------
BUFFER_SIZE == 100

\* HIGH_G_THRESHOLD = 4.0; accelerations of the model are whole numbers
HIGH_G_THRESHOLD == 4

SUSTAINED_DURATION_MS == 100

ROTATION_THRESHOLD == 90

\* analyzeBuffer: if (buffer.length < 10) return false
MIN_BUFFER_LENGTH == 10

\* analyzeBuffer: if (recentReadings.length < 5) return false
MIN_RECENT_READINGS == 5

\* analyzeBuffer: if (highGReadings.length < 3) return false
MIN_HIGH_G_READINGS == 3

\* ------------------------------------------------------------------------
\* Bounds of the model
\* ------------------------------------------------------------------------
\* SpecDetector: readings older than the window, readings inside it, and the
\* milliseconds the clock may advance between the two Date.now() calls of
\* one handleMotionEvent (the reading's timestamp, analyzeBuffer's now)
MaxOld == 6

MaxInner == 6

MaxSkew == 1

\* closures of handleMotionEvent that can be registered at the same time
MaxListeners == 2

\* SpecSensor: readings pushed beyond BUFFER_SIZE
MaxOverflow == 2

\* SpecQueue: items ever enqueued, processQueue calls in progress at the
\* same time, and dispatch attempts made for one item
MaxItems == 2

MaxDrains == 2

MaxAttempts == 4

\* SpecLimiter: requests of one user the SMS endpoint handles at the same
\* time, half hours the server's clock may advance, and admissions counted
\* in one window
MaxRequests == 2

MaxHalfHours == 3

MaxAdmitted == 7

\* Spec: readings the buffer may hold beyond the MIN_BUFFER_LENGTH the
\* detector asks for
MaxExtraSamples == 1

\* Spec: time steps in the second of ConfirmingState's timer
StepsPerTick == 1

VARIABLES
  \* useSensorFusion
  isCrashDetected,   \* state.isCrashDetected
  isMonitoring,      \* state.isMonitoring
  lastReading,       \* state.lastReading: <<>> for null, else <<reading>>
  sensorBuffer,      \* sensorBufferRef.current
  permissionGranted, \* permissionGrantedRef.current
  listeners,         \* the handleMotionEvent closures registered for 'devicemotion'
  closure,           \* the closures of the latest render of the hook
  pendingStarts,     \* startMonitoring calls suspended in requestPermissions
  now,               \* the value Date.now() returns
  \* ArmedState
  armedMounted,      \* the view is mounted
  armedMountClosure, \* the props its mount effect captured
  armedIsMonitoring, \* its isMonitoring state
  permissionDenied,  \* its permissionDenied state
  \* SpecDetector: "input" before the handler has run, "analysed" after
  detectorPc,
  \* useOfflineQueue and sendEmergencySMS
  storage,           \* localStorage 'boda_offline_queue', parsed; <<>> when absent
  navOnline,         \* navigator.onLine
  isOnline,          \* the hook's isOnline state
  queueSize,         \* the hook's queueSize state
  drains,            \* the processQueue calls: [pc, queue, i, processedIds]
  nextId,            \* the next item gets this id
  attempts,          \* history: dispatches started for each item
  delivered,         \* history: items whose dispatch succeeded
  alertRequested,    \* history: sendEmergencySMS, called by the application,
                     \* has sent an alert to the channel
  smsResult,         \* how the application's last sendEmergencySMS call
                     \* ended: "none", "queued", "requested" or "thrown"
  \* BodaBox, ConfirmingState, TriggeredState
  appState,          \* BodaBox: 'ARMED', 'CONFIRMING' or 'TRIGGERED'
  countdown,         \* ConfirmingState: countdown
  tickTimer,         \* time steps the pending one-second timer has run
  timerLost,         \* history: a timer that had run for a time was cleared
  capturePc,         \* performCapture: "off", "running" or "done"
  isCapturing,       \* TriggeredState: isCapturing
  trustPacket,       \* TriggeredState: trustPacket is not null
  error,             \* TriggeredState: error is not null
  savedPacket,       \* localStorage 'boda_trust_packet' is present
  returnedBy,        \* history: the handler that set 'ARMED', "cancel" or
                     \* "reset", until ArmedState has mounted; else "none"
  \* captureEvidence, step by step (SpecCapture; the other specifications
  \* take a capture as one step with either outcome)
  capStep,           \* the await the running captureEvidence has reached
  acquiring,         \* the acquisitions Promise.all is waiting for
  leftover,          \* acquisitions of a capture that threw, still running
  acquired,          \* the values the acquisitions have resolved with
  failed,            \* history: what failed in the latest capture
  sealed,            \* the packet captureEvidence last returned, <<>> if none
  savedRecord,       \* localStorage 'boda_trust_packet', parsed; <<>> if absent
  savedHash,         \* localStorage 'boda_trust_hash'; <<>> if absent
  clipboard,         \* the text on the clipboard; <<>> if none
  elapsed,           \* ms since the running captureEvidence read startTime,
                     \* as far as its own timers account for them
  \* send-emergency-sms (the SMS endpoint), for one user
  sms_rate_limits,   \* the user's row of the table: <<>> if there is none,
                     \* else <<[sms_count, reset_time]>>
  serverClock,       \* the server's Date, in ms
  requests,          \* the handlers in progress: pc, now and existingLimit
  admitted           \* history: requests admitted since the row's window
                     \* was last opened

sensorVars ==
  <<isCrashDetected, isMonitoring, lastReading, sensorBuffer, permissionGranted,
    listeners, closure, pendingStarts, now>>

armedVars ==
  <<armedMounted, armedMountClosure, armedIsMonitoring, permissionDenied>>

queueVars ==
  <<storage, navOnline, isOnline, queueSize, drains, nextId,
    attempts, delivered>>

appVars ==
  <<appState, countdown, tickTimer, timerLost, capturePc, isCapturing,
    trustPacket, error, savedPacket, returnedBy>>

captureVars ==
  <<capStep, acquiring, leftover, acquired, failed, sealed, savedRecord,
    savedHash, clipboard, elapsed>>

limiterVars == <<sms_rate_limits, serverClock, requests, admitted>>

\* everything that lives on the device
deviceVars ==
  <<sensorVars, armedVars, detectorPc, queueVars, alertRequested, smsResult,
    appVars, captureVars>>

vars == <<deviceVars, limiterVars>>

\* ------------------------------------------------------------------------
\* useSensorFusion: the detector
\* ------------------------------------------------------------------------
Abs(x) == IF x < 0 THEN -x ELSE x

Max3(a, b, c) ==
  LET ab == IF a >= b THEN a ELSE b
  IN  IF ab >= c THEN ab ELSE c

Reading(ts, acc, rot) ==
  [timestamp |-> ts,
   accelerationX |-> acc[1], accelerationY |-> acc[2], accelerationZ |-> acc[3],
   rotationAlpha |-> rot[1], rotationBeta |-> rot[2], rotationGamma |-> rot[3]]

\* calculateMagnitude is Math.sqrt(x*x + y*y + z*z); on whole numbers
\* sqrt(s) > 4.0 exactly when s > 16, so the model keeps the square
calculateMagnitudeSq(x, y, z) == x * x + y * y + z * z

ExceedsHighG(reading) ==
  calculateMagnitudeSq(reading.accelerationX, reading.accelerationY,
                       reading.accelerationZ)
    > HIGH_G_THRESHOLD * HIGH_G_THRESHOLD

calculateRotationChange(readings) ==
  IF Len(readings) < 2 THEN 0
  ELSE LET first == readings[1]
           last  == readings[Len(readings)]
       IN  Max3(Abs(last.rotationAlpha - first.rotationAlpha),
                Abs(last.rotationBeta - first.rotationBeta),
                Abs(last.rotationGamma - first.rotationGamma))

InWindow(reading, t) == t - reading.timestamp <= SUSTAINED_DURATION_MS

recentReadings(buffer, t) == SelectSeq(buffer, LAMBDA r : InWindow(r, t))

highGReadings(readings) == SelectSeq(readings, ExceedsHighG)

\* analyzeBuffer without its high-G count
analyzeBuffer_NoHighGCount(buffer, t) ==
  IF Len(buffer) < MIN_BUFFER_LENGTH THEN FALSE
  ELSE LET recent == recentReadings(buffer, t)
       IN  IF Len(recent) < MIN_RECENT_READINGS THEN FALSE
           ELSE IF calculateRotationChange(recent) < ROTATION_THRESHOLD THEN FALSE
           ELSE TRUE

\* analyzeBuffer without its check of the window's population
analyzeBuffer_NoPopulationCheck(buffer, t) ==
  IF Len(buffer) < MIN_BUFFER_LENGTH THEN FALSE
  ELSE LET recent == recentReadings(buffer, t)
       IN  IF Len(highGReadings(recent)) < MIN_HIGH_G_READINGS THEN FALSE
           ELSE IF calculateRotationChange(recent) < ROTATION_THRESHOLD THEN FALSE
           ELSE TRUE

analyzeBuffer(buffer, t) ==
  IF Len(buffer) < MIN_BUFFER_LENGTH THEN FALSE
  ELSE LET recent == recentReadings(buffer, t)
       IN  IF Len(recent) < MIN_RECENT_READINGS THEN FALSE
           ELSE IF Len(highGReadings(recent)) < MIN_HIGH_G_READINGS THEN FALSE
           ELSE IF calculateRotationChange(recent) < ROTATION_THRESHOLD THEN FALSE
           ELSE TRUE

\* ------------------------------------------------------------------------
\* useSensorFusion: closures, listeners and the handlers
\* ------------------------------------------------------------------------
ClosureIds == 0 .. (MaxListeners + 1)

\* no closure: the value of armedMountClosure while ArmedState is unmounted
NoClosure == 0 - 1

SmallestOf(S) == CHOOSE c \in S : \A d \in S : c <= d

\* Every setState of the hook re-renders BodaBox, and each render makes new
\* closures (handleMotionEvent, startMonitoring, stopMonitoring).  A closure
\* nothing refers to any more gives its name to the next one.
NextClosure(registered, held) ==
  IF closure \in registered \cup held
    THEN SmallestOf(ClosureIds \ (registered \cup held))
    ELSE closure

\* closures still referred to: by the mounted ArmedState's effect cleanup and
\* by the startMonitoring calls that have not resumed
HeldClosures(mounted, mountClosure, pending) ==
  (IF mounted THEN {mountClosure} ELSE {}) \cup {p.closure : p \in pending}

\* handleMotionEvent evicting as soon as the buffer holds BUFFER_SIZE readings
handleMotionEvent_EvictEarly(h, event, skew) ==
  IF ~event.hasData THEN h
  ELSE LET reading == Reading(h.clock, event.acc, event.rot)
           pushed  == Append(h.buffer, reading)
           kept    == IF Len(pushed) >= BUFFER_SIZE THEN Tail(pushed) ELSE pushed
           t       == h.clock + skew
       IN  [buffer |-> kept,
            last   |-> <<reading>>,
            crash  |-> IF analyzeBuffer(kept, t) THEN TRUE ELSE h.crash,
            clock  |-> t]

\* handleMotionEvent storing the result of every analysis in isCrashDetected
handleMotionEvent_StoreEveryResult(h, event, skew) ==
  IF ~event.hasData THEN h
  ELSE LET reading == Reading(h.clock, event.acc, event.rot)
           pushed  == Append(h.buffer, reading)
           kept    == IF Len(pushed) > BUFFER_SIZE THEN Tail(pushed) ELSE pushed
           t       == h.clock + skew
       IN  [buffer |-> kept,
            last   |-> <<reading>>,
            crash  |-> analyzeBuffer(kept, t),
            clock  |-> t]

\* handleMotionEvent for one registered closure, on the hook's state
\* h = [buffer, last, crash, clock]; the clock advances by skew between
\* the reading's Date.now() and analyzeBuffer's
handleMotionEvent(h, event, skew) ==
  IF ~event.hasData THEN h
  ELSE LET reading == Reading(h.clock, event.acc, event.rot)
           pushed  == Append(h.buffer, reading)
           kept    == IF Len(pushed) > BUFFER_SIZE THEN Tail(pushed) ELSE pushed
           t       == h.clock + skew
       IN  [buffer |-> kept,
            last   |-> <<reading>>,
            crash  |-> IF analyzeBuffer(kept, t) THEN TRUE ELSE h.crash,
            clock  |-> t]

RECURSIVE Dispatch(_, _, _, _)
\* the browser calls the k registered listeners one after the other
Dispatch(h, k, event, skew) ==
  IF k = 0 THEN h
  ELSE Dispatch(handleMotionEvent(h, event, skew), k - 1, event, skew)

\* a 'devicemotion' event
DeviceMotion(event, skew) ==
  /\ listeners # {}
  /\ LET h0 == [buffer |-> sensorBuffer, last |-> lastReading,
                crash |-> isCrashDetected, clock |-> now]
         h  == Dispatch(h0, Cardinality(listeners), event, skew)
     IN  /\ sensorBuffer' = h.buffer
         /\ lastReading' = h.last
         /\ isCrashDetected' = h.crash
         /\ now' = h.clock
         /\ closure' = IF event.hasData
                         THEN NextClosure(listeners,
                                HeldClosures(armedMounted, armedMountClosure,
                                             pendingStarts))
                         ELSE closure
  /\ UNCHANGED <<isMonitoring, permissionGranted, listeners, pendingStarts>>

\* window.addEventListener and the setState at the end of startMonitoring
\* with the closures of render g
Register(g) ==
  /\ listeners' = listeners \cup {g}
  /\ isMonitoring' = TRUE
  /\ isCrashDetected' = FALSE

\* startMonitoring called through the closures of render g, up to its first
\* suspension; live: the ArmedState that called is the mounted one
startMonitoring(g, live) ==
  /\ Cardinality(listeners \cup {p.closure : p \in pendingStarts} \cup {g})
       <= MaxListeners
  /\ IF permissionGranted
       THEN /\ Register(g)
            /\ UNCHANGED <<permissionGranted, pendingStarts>>
       ELSE /\ pendingStarts' = pendingStarts \cup {[closure |-> g, live |-> live]}
            /\ UNCHANGED <<listeners, isMonitoring, isCrashDetected,
                           permissionGranted>>
  /\ UNCHANGED <<lastReading, sensorBuffer, now>>

\* requestPermissions settles for the suspended call req: "granted", "denied",
\* or "error" (the request threw)
requestPermissions(req, answer) ==
  /\ req \in pendingStarts
  /\ pendingStarts' = pendingStarts \ {req}
  /\ permissionGranted' = IF answer = "error" THEN permissionGranted
                          ELSE answer = "granted"
  /\ IF answer = "granted"
       THEN Register(req.closure)
       ELSE UNCHANGED <<listeners, isMonitoring, isCrashDetected>>
  /\ UNCHANGED <<lastReading, sensorBuffer, now>>

stopMonitoring(g) ==
  /\ listeners' = listeners \ {g}
  /\ isMonitoring' = FALSE
  /\ sensorBuffer' = <<>>
  /\ UNCHANGED <<isCrashDetected, lastReading, permissionGranted, now>>

\* resetCrashDetection without bufferRef.current = []
resetCrashDetection_KeepBuffer ==
  /\ isCrashDetected' = FALSE
  /\ UNCHANGED <<isMonitoring, lastReading, sensorBuffer, permissionGranted,
                 listeners, pendingStarts, now>>

\* resetCrashDetection without the setState that clears isCrashDetected
resetCrashDetection_KeepFlag ==
  /\ sensorBuffer' = <<>>
  /\ UNCHANGED <<isCrashDetected, isMonitoring, lastReading, permissionGranted,
                 listeners, pendingStarts, now>>

resetCrashDetection ==
  /\ isCrashDetected' = FALSE
  /\ sensorBuffer' = <<>>
  /\ UNCHANGED <<isMonitoring, lastReading, permissionGranted, listeners,
                 pendingStarts, now>>

\* the re-render that follows a setState of the hook
Rerender ==
  closure' = NextClosure(listeners',
                         HeldClosures(armedMounted', armedMountClosure',
                                      pendingStarts'))

SensorInit ==
  /\ isCrashDetected = FALSE
  /\ isMonitoring = FALSE
  /\ lastReading = <<>>
  /\ sensorBuffer = <<>>
  /\ permissionGranted = FALSE
  /\ listeners = {}
  /\ closure = 0
  /\ pendingStarts = {}
  /\ now = 0

ArmedUnmounted ==
  /\ armedMounted = FALSE
  /\ armedMountClosure = NoClosure
  /\ armedIsMonitoring = FALSE
  /\ permissionDenied = FALSE

\* ConfirmingState: useState(5)
COUNTDOWN_START == 5

\* TriggeredState is not mounted
TriggeredUnmounted ==
  /\ capturePc = "off"
  /\ isCapturing = FALSE
  /\ trustPacket = FALSE
  /\ error = FALSE

\* the results of a capture's acquisitions before any has resolved
NoResults ==
  [photo |-> "",
   location |-> [latitude |-> <<>>, longitude |-> <<>>, accuracy |-> <<>>],
   audioSignature |-> ""]

\* no captureEvidence has been called
CaptureIdle ==
  /\ capStep = "idle"
  /\ acquiring = {}
  /\ leftover = {}
  /\ acquired = NoResults
  /\ failed = {}
  /\ sealed = <<>>
  /\ savedRecord = <<>>
  /\ savedHash = <<>>
  /\ clipboard = <<>>
  /\ elapsed = 0

\* BodaBox: useState('ARMED'); no trust packet has been saved
BodaBoxInit ==
  /\ CaptureIdle
  /\ appState = "ARMED"
  /\ countdown = 0
  /\ tickTimer = 0
  /\ timerLost = FALSE
  /\ TriggeredUnmounted
  /\ savedPacket = FALSE
  /\ returnedBy = "none"

\* ------------------------------------------------------------------------
\* send-emergency-sms: the rate limiting of the SMS endpoint, for one user.
\* Every request runs checkAndUpdateRateLimit on a handler of its own; the
\* handlers share the user's row of sms_rate_limits, which the unique index
\* on user_id keeps to one.
\* ------------------------------------------------------------------------
\* if (existingLimit.sms_count >= 5)
MAX_SMS_PER_HOUR == 5

\* 60 * 60 * 1000
HOUR_MS == 3600000

Requests == 1 .. MaxRequests

LimitRow(count, reset) == [sms_count |-> count, reset_time |-> reset]

IdleRequest == [pc |-> "idle", now |-> 0, existingLimit |-> <<>>]

LimiterInit ==
  /\ sms_rate_limits = <<>>
  /\ serverClock = 0
  /\ requests = [r \in Requests |-> IdleRequest]
  /\ admitted = 0

\* the server's time passes
ServerTimePasses ==
  /\ serverClock < MaxHalfHours * (HOUR_MS \div 2)
  /\ serverClock' = serverClock + HOUR_MS \div 2
  /\ UNCHANGED <<sms_rate_limits, requests, admitted>>

\* checkAndUpdateRateLimit, up to its first await: const now = new Date()
RateLimitEnter(r) ==
  /\ requests[r].pc = "idle"
  /\ admitted < MaxAdmitted
  /\ requests' = [requests EXCEPT ![r] = [pc |-> "select",
                                          now |-> serverClock,
                                          existingLimit |-> <<>>]]
  /\ UNCHANGED <<sms_rate_limits, serverClock, admitted>>

\* the select: existingLimit is the row as it is when the query runs
RateLimitSelect(r) ==
  /\ requests[r].pc = "select"
  /\ requests' = [requests EXCEPT ![r].pc = "decide",
                                  ![r].existingLimit = sms_rate_limits]
  /\ UNCHANGED <<sms_rate_limits, serverClock, admitted>>

\* the branches after the select, which decide from existingLimit and now
NoRowSeen(r) == requests[r].existingLimit = <<>>

WindowOver(r) ==
  /\ ~NoRowSeen(r)
  /\ requests[r].now > requests[r].existingLimit[1].reset_time

LimitReached(r) ==
  /\ ~NoRowSeen(r)
  /\ ~WindowOver(r)
  /\ requests[r].existingLimit[1].sms_count >= MAX_SMS_PER_HOUR

\* checkAndUpdateRateLimit from the select's result to its return: the
\* insert, which the unique index refuses when a row is there by now and
\* whose error admits the request; the reset; the refusal (return true);
\* the increment, written from the count that was read
checkAndUpdateRateLimit(r) ==
  LET req == requests[r]
  IN  /\ req.pc = "decide"
      /\ IF NoRowSeen(r)
           THEN IF sms_rate_limits = <<>>
                  THEN /\ sms_rate_limits' = <<LimitRow(1, req.now + HOUR_MS)>>
                       /\ admitted' = 1
                  ELSE /\ UNCHANGED sms_rate_limits
                       /\ admitted' = admitted + 1
           ELSE IF WindowOver(r)
                  THEN /\ sms_rate_limits' = <<LimitRow(1, req.now + HOUR_MS)>>
                       /\ admitted' = 1
                  ELSE IF LimitReached(r)
                         THEN UNCHANGED <<sms_rate_limits, admitted>>
                         ELSE /\ sms_rate_limits' =
                                   <<[sms_rate_limits[1] EXCEPT
                                        !.sms_count = req.existingLimit[1].sms_count + 1]>>
                              /\ admitted' = admitted + 1
      /\ requests' = [requests EXCEPT ![r] = IdleRequest]
      /\ UNCHANGED serverClock

LimiterTime == ServerTimePasses /\ UNCHANGED deviceVars

LimiterEnter == (\E r \in Requests : RateLimitEnter(r)) /\ UNCHANGED deviceVars

LimiterSelect == (\E r \in Requests : RateLimitSelect(r)) /\ UNCHANGED deviceVars

LimiterDecide ==
  (\E r \in Requests : checkAndUpdateRateLimit(r)) /\ UNCHANGED deviceVars

LimiterNext == LimiterTime \/ LimiterEnter \/ LimiterSelect \/ LimiterDecide

\* ------------------------------------------------------------------------
\* useOfflineQueue and sendEmergencySMS.  An item is [id, type, retryCount];
\* its data and timestamp play no part in what the queue does with it.
\* ------------------------------------------------------------------------
ItemIds == 1 .. MaxItems

ItemTypes == {"emergency_sms", "trust_packet"}

\* processQueue: if (item.retryCount >= 3)
MAX_RETRIES == 3

QueuedItem(id, type) == [id |-> id, type |-> type, retryCount |-> 0]

IdleDrain == [pc |-> "idle", queue |-> <<>>, i |-> 0, processedIds |-> {}]

StoredIds == {storage[k].id : k \in DOMAIN storage}

QueueInit ==
  /\ storage = <<>>
  /\ navOnline = TRUE
  /\ isOnline = TRUE
  /\ queueSize = 0
  /\ drains = [d \in 1 .. MaxDrains |-> IdleDrain]
  /\ nextId = 1
  /\ attempts = [id \in ItemIds |-> 0]
  /\ delivered = {}
  /\ alertRequested = FALSE
  /\ smsResult = "none"
  /\ LimiterInit

\* getQueue: the parsed queue, or [] from its catch when the stored text
\* cannot be read back
getQueue(readable) == IF readable THEN storage ELSE <<>>

\* addToQueue(type, data): getQueue, push, setItem, updateQueueSize
addToQueue(type, readable) ==
  /\ nextId \in ItemIds
  /\ storage' = Append(getQueue(readable), QueuedItem(nextId, type))
  /\ queueSize' = Len(storage')
  /\ nextId' = nextId + 1
  /\ UNCHANGED <<navOnline, isOnline, drains, attempts, delivered>>

\* sendEmergencySMS called by the application: offline it queues the alert
\* and returns {queued: true}; online it goes to the channel and leaves the
\* queue alone
sendEmergencySMS(readable) ==
  IF ~navOnline
    THEN /\ nextId \in ItemIds
         /\ IF readable
              THEN /\ storage' = Append(storage, QueuedItem(nextId, "emergency_sms"))
                   /\ nextId' = nextId + 1
                   /\ smsResult' = "queued"
              ELSE /\ smsResult' = "thrown"
                   /\ UNCHANGED <<storage, nextId>>
         /\ UNCHANGED <<navOnline, isOnline, queueSize, drains, attempts,
                        delivered, alertRequested>>
    ELSE /\ alertRequested' = TRUE
         /\ smsResult' = "requested"
         /\ UNCHANGED queueVars

clearQueue ==
  /\ storage' = <<>>
  /\ queueSize' = 0
  /\ UNCHANGED <<navOnline, isOnline, drains, nextId, attempts, delivered>>

RECURSIVE SkipTrustPackets(_, _, _)
\* the loop of processQueue over trust_packet items, which it marks as
\* processed without suspending
SkipTrustPackets(queue, i, processedIds) ==
  IF i <= Len(queue) /\ queue[i].type = "trust_packet"
    THEN SkipTrustPackets(queue, i + 1, processedIds \cup {queue[i].id})
    ELSE [i |-> i, processedIds |-> processedIds]

\* processQueue from item i of its copy of the queue, up to its next
\* suspension (the import awaited for an emergency_sms item) or to its end,
\* where it writes the copy without the processed items; stored is the
\* persisted queue as this step leaves it otherwise
RunLoop(d, queue, i, processedIds, stored) ==
  LET r == SkipTrustPackets(queue, i, processedIds)
  IN  IF r.i <= Len(queue)
        THEN /\ drains' = [drains EXCEPT ![d] =
                  [pc |-> "import", queue |-> queue, i |-> r.i,
                   processedIds |-> r.processedIds]]
             /\ storage' = stored
             /\ UNCHANGED queueSize
        ELSE /\ drains' = [drains EXCEPT ![d] = IdleDrain]
             /\ IF r.processedIds # {}
                  THEN /\ storage' = SelectSeq(queue,
                                       LAMBDA item : item.id \notin r.processedIds)
                       /\ queueSize' = Len(storage')
                  ELSE /\ storage' = stored
                       /\ UNCHANGED queueSize

\* processQueue called: returns at once when offline or when the queue is
\* empty
processQueue(d) ==
  /\ drains[d].pc = "idle"
  /\ IF ~navOnline \/ storage = <<>>
       THEN UNCHANGED <<storage, queueSize, drains>>
       ELSE RunLoop(d, storage, 1, {}, storage)

\* the import has settled and processQueue calls sendEmergencySMS for item i.
\* Offline, sendEmergencySMS queues a new item and returns {queued: true},
\* which processQueue takes for a sent alert; online the request goes out.
DrainDispatch(d) ==
  LET dr   == drains[d]
      item == dr.queue[dr.i]
  IN  /\ dr.pc = "import"
      /\ IF ~navOnline
           THEN /\ nextId \in ItemIds
                /\ nextId' = nextId + 1
                /\ RunLoop(d, dr.queue, dr.i + 1, dr.processedIds \cup {item.id},
                           Append(storage, QueuedItem(nextId, "emergency_sms")))
                /\ UNCHANGED attempts
           ELSE /\ attempts[item.id] < MaxAttempts
                /\ attempts' = [attempts EXCEPT ![item.id] = @ + 1]
                /\ drains' = [drains EXCEPT ![d].pc = "send"]
                /\ UNCHANGED <<storage, queueSize, nextId>>
      /\ UNCHANGED <<navOnline, isOnline, delivered>>

\* DrainSettle with a loop that a failed dispatch ends
DrainSettle_AbortOnFailure(d, ok) ==
  LET dr   == drains[d]
      item == dr.queue[dr.i]
  IN  /\ dr.pc = "send"
      /\ IF ok
           THEN /\ delivered' = delivered \cup {item.id}
                /\ RunLoop(d, dr.queue, dr.i + 1, dr.processedIds \cup {item.id},
                           storage)
           ELSE /\ RunLoop(d,
                           [dr.queue EXCEPT ![dr.i].retryCount = @ + 1],
                           Len(dr.queue) + 1,
                           IF item.retryCount + 1 >= MAX_RETRIES
                             THEN dr.processedIds \cup {item.id}
                             ELSE dr.processedIds,
                           storage)
                /\ UNCHANGED delivered
      /\ UNCHANGED <<navOnline, isOnline, nextId, attempts>>

\* the request of sendEmergencySMS settles: it returns the response, or it
\* throws (no session, an error response) and processQueue counts a retry
DrainSettle(d, ok) ==
  LET dr   == drains[d]
      item == dr.queue[dr.i]
  IN  /\ dr.pc = "send"
      /\ IF ok
           THEN /\ delivered' = delivered \cup {item.id}
                /\ RunLoop(d, dr.queue, dr.i + 1, dr.processedIds \cup {item.id},
                           storage)
           ELSE /\ RunLoop(d,
                           [dr.queue EXCEPT ![dr.i].retryCount = @ + 1],
                           dr.i + 1,
                           IF item.retryCount + 1 >= MAX_RETRIES
                             THEN dr.processedIds \cup {item.id}
                             ELSE dr.processedIds,
                           storage)
                /\ UNCHANGED delivered
      /\ UNCHANGED <<navOnline, isOnline, nextId, attempts>>

\* the window's 'online' event: handleOnline
handleOnline(d) ==
  /\ ~navOnline
  /\ navOnline' = TRUE
  /\ isOnline' = TRUE
  /\ drains[d].pc = "idle"
  /\ IF storage = <<>>
       THEN UNCHANGED <<storage, queueSize, drains>>
       ELSE RunLoop(d, storage, 1, {}, storage)
  /\ UNCHANGED <<nextId, attempts, delivered>>

\* the window's 'offline' event: handleOffline
handleOffline ==
  /\ navOnline
  /\ navOnline' = FALSE
  /\ isOnline' = FALSE
  /\ UNCHANGED <<storage, queueSize, drains, nextId, attempts, delivered>>

\* ------------------------------------------------------------------------
\* SpecQueue: the hook mounted, its operations called in any order
\* ------------------------------------------------------------------------
FreeDrain == SmallestOf({d \in 1 .. MaxDrains : drains[d].pc = "idle"})

HasFreeDrain == \E d \in 1 .. MaxDrains : drains[d].pc = "idle"

QueueAdd ==
  /\ \E type \in ItemTypes : addToQueue(type, TRUE)
  /\ UNCHANGED <<sensorVars, armedVars, detectorPc, captureVars, appVars, alertRequested, smsResult, limiterVars>>

QueueSend ==
  /\ sendEmergencySMS(TRUE)
  /\ UNCHANGED <<sensorVars, armedVars, detectorPc, captureVars, appVars, limiterVars>>

QueueClear ==
  /\ clearQueue
  /\ UNCHANGED <<sensorVars, armedVars, detectorPc, captureVars, appVars, alertRequested, smsResult, limiterVars>>

QueueProcess ==
  /\ HasFreeDrain
  /\ processQueue(FreeDrain)
  /\ UNCHANGED <<navOnline, isOnline, nextId, attempts, delivered>>
  /\ UNCHANGED <<sensorVars, armedVars, detectorPc, captureVars, appVars, alertRequested, smsResult, limiterVars>>

QueueDispatch ==
  /\ \E d \in 1 .. MaxDrains : DrainDispatch(d)
  /\ UNCHANGED <<sensorVars, armedVars, detectorPc, captureVars, appVars, alertRequested, smsResult, limiterVars>>

QueueSettle ==
  /\ \E d \in 1 .. MaxDrains, ok \in BOOLEAN : DrainSettle(d, ok)
  /\ UNCHANGED <<sensorVars, armedVars, detectorPc, captureVars, appVars, alertRequested, smsResult, limiterVars>>

QueueOnline ==
  /\ HasFreeDrain
  /\ handleOnline(FreeDrain)
  /\ UNCHANGED <<sensorVars, armedVars, detectorPc, captureVars, appVars, alertRequested, smsResult, limiterVars>>

QueueOffline ==
  /\ handleOffline
  /\ UNCHANGED <<sensorVars, armedVars, detectorPc, captureVars, appVars, alertRequested, smsResult, limiterVars>>

QueueSpecInit ==
  SensorInit /\ ArmedUnmounted /\ detectorPc = "off" /\ QueueInit /\ BodaBoxInit

QueueNext ==
  \/ QueueAdd
  \/ QueueSend
  \/ QueueClear
  \/ QueueProcess
  \/ QueueDispatch
  \/ QueueSettle
  \/ QueueOnline
  \/ QueueOffline

SpecQueue == QueueSpecInit /\ [][QueueNext]_vars

\* ------------------------------------------------------------------------
\* SpecMount: the hook mounts on the queue an earlier session left in
\* localStorage.  A persisted item carries a retry count below the limit: a
\* drain writes the counts of its copy when it removes an item, and it
\* removes every item whose count reached the limit.
\* ------------------------------------------------------------------------
PersistedQueues ==
  UNION {{[k \in 1 .. n |-> [id |-> k, type |-> f[k][1], retryCount |-> f[k][2]]] :
            f \in [1 .. n -> ItemTypes \X (0 .. MAX_RETRIES - 1)]} :
         n \in 0 .. MaxItems}

\* useState(navigator.onLine), useState(0), and the mount effect: it
\* registers handleOnline and handleOffline and calls updateQueueSize,
\* nothing else
MountInit ==
  /\ storage \in PersistedQueues
  /\ navOnline \in BOOLEAN
  /\ isOnline = navOnline
  /\ queueSize = Len(storage)
  /\ drains = [d \in 1 .. MaxDrains |-> IdleDrain]
  /\ nextId = Len(storage) + 1
  /\ attempts = [id \in ItemIds |-> 0]
  /\ delivered = {}
  /\ alertRequested = FALSE
  /\ smsResult = "none"
  /\ LimiterInit

MountSpecInit ==
  SensorInit /\ ArmedUnmounted /\ detectorPc = "off" /\ MountInit /\ BodaBoxInit

SpecMount == MountSpecInit /\ [][QueueNext]_vars

\* a pending import and a pending request settle; nothing schedules a call
\* of processQueue
SpecMountFair ==
  /\ SpecMount
  /\ WF_vars(QueueDispatch)
  /\ WF_vars(QueueSettle)

\* ------------------------------------------------------------------------
\* SpecDrain: the mounted hook with one drain at a time: processQueue is
\* called, by hand or by the 'online' event, only when no earlier call is
\* still running; items are enqueued and the connection changes at any time
\* ------------------------------------------------------------------------
NoDrainRunning == \A d \in 1 .. MaxDrains : drains[d].pc = "idle"

DrainProcess == NoDrainRunning /\ QueueProcess

DrainOnline == NoDrainRunning /\ QueueOnline

DrainNext ==
  \/ QueueAdd
  \/ QueueSend
  \/ QueueClear
  \/ DrainProcess
  \/ QueueDispatch
  \/ QueueSettle
  \/ DrainOnline
  \/ QueueOffline

SpecDrain == MountSpecInit /\ [][DrainNext]_vars

\* ------------------------------------------------------------------------
\* SpecStorage: the enqueueing operations on a persisted queue whose text
\* may fail to parse when an operation reads it back
\* ------------------------------------------------------------------------
StorageAdd ==
  /\ \E type \in ItemTypes, readable \in BOOLEAN : addToQueue(type, readable)
  /\ UNCHANGED <<sensorVars, armedVars, detectorPc, captureVars, appVars, alertRequested, smsResult, limiterVars>>

StorageSend ==
  /\ \E readable \in BOOLEAN : sendEmergencySMS(readable)
  /\ UNCHANGED <<sensorVars, armedVars, detectorPc, captureVars, appVars, limiterVars>>

StorageNext ==
  \/ StorageAdd
  \/ StorageSend
  \/ QueueClear
  \/ QueueOffline

SpecStorage == MountSpecInit /\ [][StorageNext]_vars

\* the SMS endpoint alone: concurrent requests of one user
SpecLimiter == QueueSpecInit /\ [][LimiterNext]_vars

\* ------------------------------------------------------------------------
\* SpecDetector: one 'devicemotion' event handled on a buffer the hook can
\* hold.  The buffer before the event is, oldest first: nOld readings older
\* than the window, possibly one reading exactly SUSTAINED_DURATION_MS before
\* the event, and nInner readings 10 ms apart of which the first nHigh exceed
\* the G threshold.  The event brings the latest reading.
\* ------------------------------------------------------------------------
BaseTime == 10 * SUSTAINED_DURATION_MS

ZeroVec == <<0, 0, 0>>

HighAcc == <<5, 0, 0>>

\* magnitude exactly HIGH_G_THRESHOLD
BoundaryAcc == <<HIGH_G_THRESHOLD, 0, 0>>

AxisRot(axis, v) == [i \in 1 .. 3 |-> IF i = axis THEN v ELSE 0]

OldPart(nOld) ==
  [i \in 1 .. nOld |->
     Reading(BaseTime - 2 * SUSTAINED_DURATION_MS + i, HighAcc, ZeroVec)]

EdgePart(edge) ==
  IF edge = "none" THEN <<>>
  ELSE <<Reading(BaseTime - SUSTAINED_DURATION_MS,
                 IF edge = "high" THEN HighAcc ELSE ZeroVec, ZeroVec)>>

InnerPart(nInner, nHigh, lowAcc, firstRot) ==
  [i \in 1 .. nInner |->
     Reading(BaseTime - 10 * (nInner + 1 - i),
             IF i <= nHigh THEN HighAcc ELSE lowAcc,
             IF i = 1 THEN AxisRot(1, firstRot) ELSE ZeroVec)]

LowAccs == {ZeroVec, BoundaryAcc}

FirstRots == {0, 0 - 30}

LastRots == {50, ROTATION_THRESHOLD, ROTATION_THRESHOLD + 1, 120}

\* rotation rates of the latest reading: each value about alpha, and the
\* threshold values about beta and gamma
LastRotVecs ==
  {AxisRot(1, v) : v \in LastRots}
    \cup {AxisRot(2, ROTATION_THRESHOLD), AxisRot(3, ROTATION_THRESHOLD + 1)}

NoDataEvent == [hasData |-> FALSE, acc |-> ZeroVec, rot |-> ZeroVec]

\* events without acceleration or rotationRate, and events with both
DetectorEvents ==
  {NoDataEvent} \cup
  {[hasData |-> TRUE, acc |-> a, rot |-> r] :
     a \in {HighAcc, ZeroVec}, r \in LastRotVecs}

DetectorInit ==
  /\ \E nOld \in 0 .. MaxOld, edge \in {"none", "low", "high"},
        nInner \in 0 .. MaxInner, lowAcc \in LowAccs, firstRot \in FirstRots :
       \E nHigh \in 0 .. nInner :
         sensorBuffer = OldPart(nOld) \o EdgePart(edge)
                          \o InnerPart(nInner, nHigh, lowAcc, firstRot)
  /\ isCrashDetected = FALSE
  /\ isMonitoring = TRUE
  /\ lastReading = <<>>
  /\ permissionGranted = TRUE
  /\ listeners = {0}
  /\ closure = 0
  /\ pendingStarts = {}
  /\ now = BaseTime
  /\ ArmedUnmounted
  /\ detectorPc = "input"
  /\ QueueInit
  /\ BodaBoxInit

DetectorStep ==
  /\ detectorPc = "input"
  /\ \E event \in DetectorEvents, skew \in 0 .. MaxSkew : DeviceMotion(event, skew)
  /\ detectorPc' = "analysed"
  /\ UNCHANGED <<armedVars, queueVars, appVars, alertRequested, smsResult, limiterVars, captureVars>>

SpecDetector == DetectorInit /\ [][DetectorStep]_vars

\* ------------------------------------------------------------------------
\* SpecSensor: the useSensorFusion hook on its own, called through the
\* closures of its latest render.  Events arrive within one millisecond
\* (the clock's part in the detector is SpecDetector's); a reading pushed
\* onto a buffer of n readings has rotationAlpha 10 * n, which tells the
\* readings of a buffer apart until it is full.
\* ------------------------------------------------------------------------
SensorEvents ==
  {NoDataEvent,
   [hasData |-> TRUE, acc |-> HighAcc, rot |-> AxisRot(1, 10 * Len(sensorBuffer))]}

\* readings pushed since the buffer was last empty, counted up to the
\* first overflowing ones
PushedSoFar ==
  IF Len(sensorBuffer) < BUFFER_SIZE THEN Len(sensorBuffer)
  ELSE BUFFER_SIZE
         + Cardinality({i \in DOMAIN sensorBuffer :
                          sensorBuffer[i].rotationAlpha = 10 * BUFFER_SIZE})

SensorMotion ==
  /\ PushedSoFar < BUFFER_SIZE + MaxOverflow
  /\ \E event \in SensorEvents : DeviceMotion(event, 0)
  /\ UNCHANGED <<armedVars, detectorPc, captureVars, queueVars, appVars, alertRequested, smsResult, limiterVars>>

\* a listener is added while the buffer is nearly empty or about to evict
NearEdge ==
  \/ Len(sensorBuffer) <= MaxOverflow
  \/ Len(sensorBuffer) >= BUFFER_SIZE - MaxOverflow

SensorStart ==
  /\ NearEdge
  /\ startMonitoring(closure, FALSE)
  /\ UNCHANGED <<armedVars, detectorPc, captureVars, queueVars, appVars, alertRequested, smsResult, limiterVars>>
  /\ IF permissionGranted THEN Rerender ELSE UNCHANGED closure

SensorPermission ==
  /\ NearEdge
  /\ UNCHANGED <<armedVars, detectorPc, captureVars, queueVars, appVars, alertRequested, smsResult, limiterVars>>
  /\ \E req \in pendingStarts, answer \in {"granted", "denied", "error"} :
       /\ requestPermissions(req, answer)
       /\ IF answer = "granted" THEN Rerender ELSE UNCHANGED closure

SensorStop ==
  /\ stopMonitoring(closure)
  /\ UNCHANGED pendingStarts
  /\ UNCHANGED <<armedVars, detectorPc, captureVars, queueVars, appVars, alertRequested, smsResult, limiterVars>>
  /\ Rerender

SensorReset ==
  /\ resetCrashDetection
  /\ UNCHANGED <<armedVars, detectorPc, captureVars, queueVars, appVars, alertRequested, smsResult, limiterVars>>
  /\ Rerender

SensorSpecInit ==
  SensorInit /\ ArmedUnmounted /\ detectorPc = "off" /\ QueueInit /\ BodaBoxInit

SensorNext ==
  \/ SensorMotion
  \/ SensorStart
  \/ SensorPermission
  \/ SensorStop
  \/ SensorReset

SpecSensor == SensorSpecInit /\ [][SensorNext]_vars

\* ------------------------------------------------------------------------
\* Spec: the BodaBox component tree.  React runs the effects of a render
\* before it handles the next event, so no event is handled while an effect
\* has yet to run.
\* ------------------------------------------------------------------------
\* BodaBox has rendered ArmedState and its mount effect has yet to run
MountPending == appState = "ARMED" /\ ~armedMounted

\* the detection effect without its check of the app state
DetectionGuard_AnyState == isCrashDetected

\* BodaBox's detection effect: if (isCrashDetected && appState === 'ARMED')
DetectionGuard == isCrashDetected /\ appState = "ARMED"

\* ConfirmingState's countdown effect takes its else branch
ConfirmPending == appState = "CONFIRMING" /\ countdown = 0

Settled == ~MountPending /\ ~DetectionGuard /\ ~ConfirmPending

\* ArmedState's mount effect: handleStartMonitoring with the props of the
\* render that mounted it
ArmedMount ==
  /\ MountPending
  /\ startMonitoring(closure, TRUE)
  /\ armedMounted' = TRUE
  /\ armedMountClosure' = closure
  /\ armedIsMonitoring' = permissionGranted
  /\ permissionDenied' = FALSE
  /\ IF permissionGranted THEN Rerender ELSE UNCHANGED closure
  /\ returnedBy' = "none"
  /\ UNCHANGED <<appState, countdown, tickTimer, timerLost, capturePc,
                 isCapturing, trustPacket, error, savedPacket>>
  /\ UNCHANGED <<detectorPc, captureVars, queueVars, alertRequested, smsResult, limiterVars>>

\* ArmedState leaves the tree: the cleanup of its mount effect calls the
\* stopMonitoring it captured, and its own state is gone
ArmedUnmount ==
  /\ stopMonitoring(armedMountClosure)
  /\ pendingStarts' = {[p EXCEPT !.live = FALSE] : p \in pendingStarts}
  /\ armedMounted' = FALSE
  /\ armedMountClosure' = NoClosure
  /\ armedIsMonitoring' = FALSE
  /\ permissionDenied' = FALSE

\* setAppState('CONFIRMING'): ArmedState gives way to a new ConfirmingState
EnterConfirming ==
  /\ appState' = "CONFIRMING"
  /\ countdown' = COUNTDOWN_START
  /\ tickTimer' = 0
  /\ timerLost' = FALSE
  /\ ArmedUnmount
  /\ Rerender
  /\ UNCHANGED <<capturePc, isCapturing, trustPacket, error, savedPacket,
                 returnedBy>>
  /\ UNCHANGED <<detectorPc, captureVars, queueVars, alertRequested, smsResult, limiterVars>>

\* the detection effect of BodaBox
DetectionEffect ==
  /\ ~MountPending
  /\ DetectionGuard
  /\ EnterConfirming

\* handleEmergencyButton, the emergency button of ArmedState
handleEmergencyButton ==
  /\ Settled
  /\ armedMounted
  /\ IF appState = "ARMED" THEN EnterConfirming ELSE UNCHANGED vars

\* a second's part goes by in Confirming while the timer has yet to fire
TimePasses ==
  /\ Settled
  /\ appState = "CONFIRMING"
  /\ tickTimer < StepsPerTick
  /\ tickTimer' = tickTimer + 1
  /\ UNCHANGED <<appState, countdown, timerLost, capturePc, isCapturing, trustPacket,
                 error, savedPacket, returnedBy>>
  /\ UNCHANGED <<sensorVars, armedVars, detectorPc, captureVars, queueVars, alertRequested, smsResult, limiterVars>>

\* BodaBox re-renders with a new handleConfirmCrash: the countdown effect of
\* a mounted ConfirmingState is cleaned up (clearTimeout) and runs again
ParentRerender(rendered) ==
  /\ IF rendered /\ appState = "CONFIRMING"
       THEN /\ tickTimer' = 0
            /\ timerLost' = (timerLost \/ tickTimer > 0)
       ELSE UNCHANGED <<tickTimer, timerLost>>
  /\ UNCHANGED <<appState, countdown, capturePc, isCapturing, trustPacket,
                 error, savedPacket, returnedBy>>

\* the one-second timer of ConfirmingState's countdown effect fires
CountdownTick ==
  /\ Settled
  /\ appState = "CONFIRMING"
  /\ countdown > 0
  /\ tickTimer = StepsPerTick
  /\ countdown' = countdown - 1
  /\ tickTimer' = 0
  /\ UNCHANGED <<appState, timerLost, capturePc, isCapturing, trustPacket, error,
                 savedPacket, returnedBy>>
  /\ UNCHANGED <<sensorVars, armedVars, detectorPc, captureVars, queueVars, alertRequested, smsResult, limiterVars>>

\* the countdown effect at zero calls onConfirm, handleConfirmCrash:
\* TriggeredState mounts and its effect starts performCapture
handleConfirmCrash ==
  /\ ConfirmPending
  /\ appState' = "TRIGGERED"
  /\ capturePc' = "running"
  /\ isCapturing' = TRUE
  /\ trustPacket' = FALSE
  /\ error' = FALSE
  /\ tickTimer' = 0
  /\ timerLost' = FALSE
  /\ UNCHANGED <<countdown, savedPacket, returnedBy>>
  /\ UNCHANGED <<isCrashDetected, isMonitoring, lastReading, sensorBuffer,
                 permissionGranted, listeners, pendingStarts, now>>
  /\ UNCHANGED <<armedVars, detectorPc, captureVars, queueVars, alertRequested, smsResult, limiterVars>>
  /\ Rerender

\* handleCancelAlert, the cancel button of ConfirmingState
handleCancelAlert ==
  /\ Settled
  /\ appState = "CONFIRMING"
  /\ resetCrashDetection
  /\ appState' = "ARMED"
  /\ countdown' = 0
  /\ tickTimer' = 0
  /\ timerLost' = FALSE
  /\ returnedBy' = "cancel"
  /\ UNCHANGED <<capturePc, isCapturing, trustPacket, error, savedPacket>>
  /\ UNCHANGED <<armedVars, detectorPc, captureVars, queueVars, alertRequested, smsResult, limiterVars>>
  /\ Rerender

\* performCapture settles: captureEvidence returned a packet, which is shown
\* and, if localStorage took it (stored), saved; or captureEvidence threw
\* (the camera was refused).  Nothing else is called
performCapture(captured, stored) ==
  /\ capturePc = "running"
  /\ capturePc' = "done"
  /\ isCapturing' = FALSE
  /\ trustPacket' = captured
  /\ error' = ~captured
  /\ savedPacket' = (savedPacket \/ (captured /\ stored))
  /\ UNCHANGED <<appState, countdown, tickTimer, timerLost, returnedBy>>
  /\ UNCHANGED <<sensorVars, armedVars, detectorPc, queueVars, alertRequested, smsResult, limiterVars>>

\* a capture, whatever its outcome
CaptureOutcome ==
  /\ \E captured, stored \in BOOLEAN : performCapture(captured, stored)
  /\ UNCHANGED captureVars

\* handleReset, the button TriggeredState shows once isCapturing is false.
\* TriggeredState unmounts and the packet it held goes with it
handleReset ==
  /\ Settled
  /\ appState = "TRIGGERED"
  /\ ~isCapturing
  /\ resetCrashDetection
  /\ appState' = "ARMED"
  /\ capturePc' = "off"
  /\ isCapturing' = FALSE
  /\ trustPacket' = FALSE
  /\ error' = FALSE
  /\ returnedBy' = "reset"
  /\ sealed' = <<>>
  /\ acquired' = NoResults
  /\ failed' = {}
  /\ elapsed' = 0
  /\ UNCHANGED <<capStep, acquiring, leftover, savedRecord, savedHash, clipboard>>
  /\ UNCHANGED <<countdown, tickTimer, timerLost, savedPacket>>
  /\ UNCHANGED <<armedVars, detectorPc, queueVars, alertRequested, smsResult, limiterVars>>
  /\ Rerender

\* handleStopMonitoring, the DISARM button of ArmedState
handleStopMonitoring ==
  /\ Settled
  /\ armedMounted
  /\ armedIsMonitoring
  /\ stopMonitoring(closure)
  /\ armedIsMonitoring' = FALSE
  /\ UNCHANGED <<pendingStarts, armedMounted, armedMountClosure,
                 permissionDenied>>
  /\ UNCHANGED <<detectorPc, captureVars, queueVars, alertRequested, smsResult, limiterVars, appVars>>
  /\ Rerender

\* handleStartMonitoring, the ARM button of ArmedState
handleStartMonitoring ==
  /\ Settled
  /\ armedMounted
  /\ ~armedIsMonitoring
  /\ ~permissionDenied
  /\ startMonitoring(closure, TRUE)
  /\ armedIsMonitoring' = permissionGranted
  /\ UNCHANGED <<armedMounted, armedMountClosure, permissionDenied>>
  /\ UNCHANGED <<detectorPc, captureVars, queueVars, alertRequested, smsResult, limiterVars, appVars>>
  /\ IF permissionGranted THEN Rerender ELSE UNCHANGED closure

\* the permission request of a suspended startMonitoring settles, and the
\* handleStartMonitoring that called it resumes if its ArmedState is mounted
PermissionSettles ==
  /\ Settled
  /\ \E req \in pendingStarts, answer \in {"granted", "denied", "error"} :
       /\ requestPermissions(req, answer)
       /\ IF req.live
            THEN /\ armedIsMonitoring' = (armedIsMonitoring \/ answer = "granted")
                 /\ permissionDenied' = (answer # "granted")
            ELSE UNCHANGED <<armedIsMonitoring, permissionDenied>>
       /\ UNCHANGED <<armedMounted, armedMountClosure>>
       /\ IF answer = "granted" THEN Rerender ELSE UNCHANGED closure
       /\ ParentRerender(answer = "granted")
  /\ UNCHANGED <<detectorPc, captureVars, queueVars, alertRequested, smsResult, limiterVars>>

\* a 'devicemotion' event reaches the registered listeners
MotionEvent ==
  /\ Settled
  /\ Len(sensorBuffer) < MIN_BUFFER_LENGTH + MaxExtraSamples
  /\ \E event \in SensorEvents :
       /\ DeviceMotion(event, 0)
       /\ ParentRerender(event.hasData)
  /\ UNCHANGED <<armedVars, detectorPc, captureVars, queueVars, alertRequested, smsResult, limiterVars>>

Init ==
  SensorInit /\ ArmedUnmounted /\ detectorPc = "off" /\ QueueInit /\ BodaBoxInit

Next ==
  \/ ArmedMount
  \/ DetectionEffect
  \/ handleEmergencyButton
  \/ TimePasses
  \/ CountdownTick
  \/ handleConfirmCrash
  \/ handleCancelAlert
  \/ CaptureOutcome
  \/ handleReset
  \/ handleStopMonitoring
  \/ handleStartMonitoring
  \/ PermissionSettles
  \/ MotionEvent

Spec == Init /\ [][Next]_vars

\* SpecDetection: the tree, with React running the detection effect of a
\* render that has isCrashDetected set
SpecDetection == Init /\ [][Next]_vars /\ WF_vars(DetectionEffect)

\* ------------------------------------------------------------------------
\* SpecCountdown: a ConfirmingState from its mount on, the user never
\* cancelling, with or without a 'devicemotion' listener that outlived
\* ArmedState.  The sensor keeps delivering the reading of a device at rest,
\* the timers fire when due and the effects run.
\* ------------------------------------------------------------------------
CalmEvent == [hasData |-> TRUE, acc |-> ZeroVec, rot |-> ZeroVec]

CountdownInit ==
  /\ \E leaked \in BOOLEAN :
       /\ listeners = IF leaked THEN {0} ELSE {}
       /\ isMonitoring = leaked
  /\ isCrashDetected = FALSE
  /\ lastReading = <<>>
  /\ sensorBuffer = <<>>
  /\ permissionGranted = TRUE
  /\ closure = 1
  /\ pendingStarts = {}
  /\ now = 0
  /\ ArmedUnmounted
  /\ detectorPc = "off"
  /\ QueueInit
  /\ appState = "CONFIRMING"
  /\ countdown = COUNTDOWN_START
  /\ tickTimer = 0
  /\ timerLost = FALSE
  /\ TriggeredUnmounted
  /\ savedPacket = FALSE
  /\ returnedBy = "none"
  /\ CaptureIdle

CountdownMotion ==
  /\ Settled
  /\ DeviceMotion(CalmEvent, 0)
  /\ ParentRerender(TRUE)
  /\ UNCHANGED <<armedVars, detectorPc, captureVars, queueVars, alertRequested, smsResult, limiterVars>>

CountdownNext ==
  \/ CountdownMotion
  \/ TimePasses
  \/ CountdownTick
  \/ handleConfirmCrash

SpecCountdown ==
  /\ CountdownInit
  /\ [][CountdownNext]_vars
  /\ WF_vars(TimePasses)
  /\ WF_vars(CountdownTick)
  /\ WF_vars(handleConfirmCrash)

\* ------------------------------------------------------------------------
\* SpecCapture: captureEvidence step by step, in the tree from its start
\* with the motion permission never answered.  What the device hands to an
\* acquisition is <<>> when it fails or is refused, else <<value>>.
\* ------------------------------------------------------------------------
Acquisitions == {"photo", "location", "audio"}

\* the camera's frame as a data URL
Frames == {<<>>, <<"data:image/jpeg;base64,A">>}

\* the position the geolocation API reports
Fixes ==
  {<<>>,
   <<[latitude |-> 1, longitude |-> 36, accuracy |-> 10]>>,
   <<[latitude |-> 2, longitude |-> 36, accuracy |-> 10]>>}

\* the frequency data of the microphone, joined
Samples == {<<>>, <<"12,0,7">>}

\* generateEventId: 'bodabox_' + Date.now() + '_' + a random suffix
EventIds == {"bodabox_1_a", "bodabox_2_b"}

\* getCurrentLocation resolves with the coordinates, or with three nulls
LocationResult(fix) ==
  IF fix = <<>>
    THEN [latitude |-> <<>>, longitude |-> <<>>, accuracy |-> <<>>]
    ELSE [latitude |-> <<fix[1].latitude>>,
          longitude |-> <<fix[1].longitude>>,
          accuracy |-> <<fix[1].accuracy>>]

\* generateAudioSignature returning the empty string from its catch
AudioResult_NoSentinel(samples) ==
  IF samples = <<>> THEN "" ELSE samples[1]

\* generateAudioSignature resolves with the signature, or from its catch
\* with 'audio_unavailable'
AudioResult(samples) ==
  IF samples = <<>> THEN "audio_unavailable" ELSE samples[1]

\* the trust packet captureEvidence builds, before it has a hash
UnsealedPacket(eventId, results, captureDelay) ==
  [eventId |-> eventId,
   timestamp |-> "2024-01-01T00:00:00.000Z",
   location |-> results.location,
   evidence |-> [photo |-> results.photo,
                 audioSignature |-> results.audioSignature],
   metadata |-> [userAgent |-> "Mozilla/5.0",
                 deviceInfo |-> "Linux armv8l - en-US",
                 captureDelay |-> captureDelay]]

\* JSON.stringify of a number or null
JsonNumber(v) == IF v = <<>> THEN "null" ELSE ToString(v[1])

\* JSON.stringify of a packet without hash: its values in key order
JSONstringify(p) ==
  <<p.eventId, p.timestamp,
    JsonNumber(p.location.latitude), JsonNumber(p.location.longitude),
    JsonNumber(p.location.accuracy),
    p.evidence.photo, p.evidence.audioSignature,
    p.metadata.userAgent, p.metadata.deviceInfo,
    ToString(p.metadata.captureDelay)>>

\* JSON.stringify(value, null, 2) of a packet without hash: every value on
\* a line of its own, behind two spaces for each level it is nested in
JSONstringifyIndented(p) ==
  <<"\n  ", p.eventId, "\n  ", p.timestamp,
    "\n    ", JsonNumber(p.location.latitude),
    "\n    ", JsonNumber(p.location.longitude),
    "\n    ", JsonNumber(p.location.accuracy),
    "\n    ", p.evidence.photo, "\n    ", p.evidence.audioSignature,
    "\n    ", p.metadata.userAgent, "\n    ", p.metadata.deviceInfo,
    "\n    ", ToString(p.metadata.captureDelay), "\n">>

\* SHA-256, as the one-to-one function it is taken for
SHA256(data) == <<"sha256">> \o data

\* generateHash: the digest, or 'hash_unavailable' when crypto.subtle.digest
\* or TextEncoder throws
generateHash(data, digestOk) ==
  IF digestOk THEN SHA256(data) ELSE <<"hash_unavailable">>

\* trustPacket.hash = hash
WithHash(p, hash) ==
  [eventId |-> p.eventId, timestamp |-> p.timestamp, location |-> p.location,
   evidence |-> p.evidence, metadata |-> p.metadata, hash |-> hash]

\* the fields of a sealed packet other than hash
Fields(p) ==
  [eventId |-> p.eventId, timestamp |-> p.timestamp, location |-> p.location,
   evidence |-> p.evidence, metadata |-> p.metadata]

CaptureRunning == appState = "TRIGGERED" /\ capturePc = "running"

\* playAlertSound: setTimeout(resolve, 600)
ALERT_SOUND_MS == 600

\* captureEvidence: setTimeout(resolve, 1000)
GOLDEN_SECOND_MS == 1000

\* generateAudioSignature: setTimeout(..., 100)
AUDIO_SAMPLE_MS == 100

\* captureEvidence reads startTime, and step 1: playAlertSound resolves,
\* after its 600 ms when the tone played, at once from its catch
playAlertSound(played) ==
  /\ CaptureRunning
  /\ capStep = "idle"
  /\ capStep' = "golden"
  /\ failed' = IF played THEN {} ELSE {"sound"}
  /\ acquired' = NoResults
  /\ elapsed' = IF played THEN ALERT_SOUND_MS ELSE 0
  /\ UNCHANGED <<acquiring, leftover, sealed, savedRecord, savedHash, clipboard>>
  /\ UNCHANGED <<sensorVars, armedVars, detectorPc, queueVars, alertRequested, smsResult, limiterVars,
                 appVars>>

\* captureEvidence starting the acquisitions without its second of delay
GoldenSecond_NoDelay ==
  /\ CaptureRunning
  /\ capStep = "golden"
  /\ capStep' = "acquire"
  /\ acquiring' = Acquisitions
  /\ UNCHANGED <<leftover, acquired, failed, sealed, savedRecord, savedHash,
                 clipboard, elapsed>>
  /\ UNCHANGED <<sensorVars, armedVars, detectorPc, queueVars, alertRequested, smsResult, limiterVars,
                 appVars>>

\* captureEvidence steps 2 and 3: the second is over and Promise.all starts
\* the three acquisitions
GoldenSecond ==
  /\ CaptureRunning
  /\ capStep = "golden"
  /\ capStep' = "acquire"
  /\ acquiring' = Acquisitions
  /\ elapsed' = elapsed + GOLDEN_SECOND_MS
  /\ UNCHANGED <<leftover, acquired, failed, sealed, savedRecord, savedHash,
                 clipboard>>
  /\ UNCHANGED <<sensorVars, armedVars, detectorPc, queueVars, alertRequested, smsResult, limiterVars,
                 appVars>>

\* an acquisition of Promise.all has resolved
Resolved(name) ==
  /\ acquiring' = acquiring \ {name}
  /\ capStep' = IF acquiring = {name} THEN "seal" ELSE "acquire"
  /\ UNCHANGED <<leftover, sealed, savedRecord, savedHash, clipboard>>
  /\ UNCHANGED <<sensorVars, armedVars, detectorPc, queueVars, alertRequested, smsResult, limiterVars,
                 appVars>>

\* capturePhoto settles.  Its rejection rejects Promise.all: captureEvidence
\* throws, performCapture catches, and the other acquisitions go on
capturePhoto(frame) ==
  /\ CaptureRunning
  /\ capStep = "acquire"
  /\ "photo" \in acquiring
  /\ IF frame = <<>>
       THEN /\ performCapture(FALSE, FALSE)
            /\ capStep' = "idle"
            /\ acquiring' = {}
            /\ leftover' = leftover \cup (acquiring \ {"photo"})
            /\ failed' = failed \cup {"photo"}
            /\ UNCHANGED <<acquired, sealed, savedRecord, savedHash, clipboard,
                           elapsed>>
       ELSE /\ acquired' = [acquired EXCEPT !.photo = frame[1]]
            /\ UNCHANGED <<failed, elapsed>>
            /\ Resolved("photo")

\* getCurrentLocation resolves
getCurrentLocation(fix) ==
  /\ CaptureRunning
  /\ capStep = "acquire"
  /\ "location" \in acquiring
  /\ acquired' = [acquired EXCEPT !.location = LocationResult(fix)]
  /\ failed' = IF fix = <<>> THEN failed \cup {"location"} ELSE failed
  /\ UNCHANGED elapsed
  /\ Resolved("location")

\* generateAudioSignature resolves
generateAudioSignature(samples) ==
  /\ CaptureRunning
  /\ capStep = "acquire"
  /\ "audio" \in acquiring
  /\ acquired' = [acquired EXCEPT !.audioSignature = AudioResult(samples)]
  /\ failed' = IF samples = <<>> THEN failed \cup {"audio"} ELSE failed
  /\ elapsed' = IF samples = <<>> THEN elapsed ELSE elapsed + AUDIO_SAMPLE_MS
  /\ Resolved("audio")

\* what localStorage takes of saveTrustPacket's two writes: a setItem that
\* throws ends the function in its catch
WriteOutcomes == {"none", "packet", "both"}

\* saveTrustPacket: setItem('boda_trust_packet'), setItem('boda_trust_hash')
saveTrustPacket(packet, written) ==
  /\ savedRecord' = IF written = "none" THEN savedRecord ELSE <<packet>>
  /\ savedHash' = IF written = "both" THEN packet.hash ELSE savedHash

\* captureEvidence steps 4 and 5, and performCapture with the packet it
\* returns: saveTrustPacket, setTrustPacket
captureEvidence(eventId, digestOk, written) ==
  /\ CaptureRunning
  /\ capStep = "seal"
  /\ LET packet == UnsealedPacket(eventId, acquired, elapsed)
         hash   == generateHash(JSONstringify(packet), digestOk)
     IN  /\ sealed' = <<WithHash(packet, hash)>>
         /\ saveTrustPacket(WithHash(packet, hash), written)
  /\ performCapture(TRUE, written # "none")
  /\ capStep' = "idle"
  /\ UNCHANGED <<acquiring, leftover, acquired, failed, clipboard, elapsed>>

\* handleCopyVerification, the copy button of TriggeredState's success view:
\* the packet without its hash, stringified, goes to the clipboard unless
\* writeText rejects
handleCopyVerification(copied) ==
  /\ appState = "TRIGGERED"
  /\ capturePc = "done"
  /\ trustPacket
  /\ clipboard' = IF copied THEN JSONstringifyIndented(Fields(sealed[1]))
                  ELSE clipboard
  /\ UNCHANGED <<capStep, acquiring, leftover, acquired, failed, sealed,
                 savedRecord, savedHash, elapsed>>
  /\ UNCHANGED <<sensorVars, armedVars, detectorPc, queueVars, alertRequested, smsResult, limiterVars,
                 appVars>>

\* an acquisition that a rejected Promise.all left behind settles
LeftoverSettles ==
  /\ \E name \in leftover : leftover' = leftover \ {name}
  /\ UNCHANGED <<capStep, acquiring, acquired, failed, sealed, savedRecord,
                 savedHash, clipboard, elapsed>>
  /\ UNCHANGED <<sensorVars, armedVars, detectorPc, queueVars, alertRequested, smsResult, limiterVars,
                 appVars>>

CaptureNext ==
  \/ ArmedMount
  \/ handleEmergencyButton
  \/ TimePasses
  \/ CountdownTick
  \/ handleConfirmCrash
  \/ \E played \in BOOLEAN : playAlertSound(played)
  \/ GoldenSecond
  \/ \E frame \in Frames : capturePhoto(frame)
  \/ \E fix \in Fixes : getCurrentLocation(fix)
  \/ \E samples \in Samples : generateAudioSignature(samples)
  \/ \E eventId \in EventIds, digestOk \in BOOLEAN, written \in WriteOutcomes :
       captureEvidence(eventId, digestOk, written)
  \/ LeftoverSettles
  \/ \E copied \in BOOLEAN : handleCopyVerification(copied)
  \/ handleReset

SpecCapture == Init /\ [][CaptureNext]_vars

\* SpecCaptureFair: SpecCapture in which every step that does not wait for the
\* operator is taken: effects run, timers fire, acquisitions settle.  The
\* buttons (emergency, reset) are pressed or not.
SpecCaptureFair ==
  /\ SpecCapture
  /\ WF_vars(ArmedMount)
  /\ WF_vars(TimePasses)
  /\ WF_vars(CountdownTick)
  /\ WF_vars(handleConfirmCrash)
  /\ WF_vars(\E played \in BOOLEAN : playAlertSound(played))
  /\ WF_vars(GoldenSecond)
  /\ WF_vars(\E frame \in Frames : capturePhoto(frame))
  /\ WF_vars(\E fix \in Fixes : getCurrentLocation(fix))
  /\ WF_vars(\E samples \in Samples : generateAudioSignature(samples))
  /\ WF_vars(\E eventId \in EventIds, digestOk \in BOOLEAN,
                  written \in WriteOutcomes :
               captureEvidence(eventId, digestOk, written))
  /\ WF_vars(LeftoverSettles)

\* SpecCaptureTimers: SpecCapture with the steps the code itself bounds:
\* effects run, the countdown and the golden second are timers, the position
\* request carries timeout: 5000, sealing awaits nothing outside the page.
\* capturePhoto and generateAudioSignature first await getUserMedia, which
\* settles when the operator answers the browser's prompt, and capturePhoto
\* then waits for the video's loadedmetadata or error event; no timer bounds
\* either.
SpecCaptureTimers ==
  /\ SpecCapture
  /\ WF_vars(ArmedMount)
  /\ WF_vars(TimePasses)
  /\ WF_vars(CountdownTick)
  /\ WF_vars(handleConfirmCrash)
  /\ WF_vars(\E played \in BOOLEAN : playAlertSound(played))
  /\ WF_vars(GoldenSecond)
  /\ WF_vars(\E fix \in Fixes : getCurrentLocation(fix))
  /\ WF_vars(\E eventId \in EventIds, digestOk \in BOOLEAN,
                  written \in WriteOutcomes :
               captureEvidence(eventId, digestOk, written))
  /\ WF_vars(LeftoverSettles)

\* ------------------------------------------------------------------------
\* The app's state machine and the hand-off after a capture
\* ------------------------------------------------------------------------
\* C1: the app state changes only along Armed->Confirming (the detection flag
\* is set, or the emergency button), Confirming->Armed (cancel),
\* Confirming->Triggered (the countdown has reached zero) and
\* Triggered->Armed (reset)
C1_OnlyFourEdges ==
  [][appState' # appState =>
       \/ /\ appState = "ARMED"
          /\ appState' = "CONFIRMING"
          /\ isCrashDetected \/ handleEmergencyButton
       \/ /\ appState = "CONFIRMING"
          /\ appState' = "ARMED"
          /\ handleCancelAlert
       \/ /\ appState = "CONFIRMING"
          /\ appState' = "TRIGGERED"
          /\ countdown = 0
       \/ /\ appState = "TRIGGERED"
          /\ appState' = "ARMED"
          /\ handleReset]_vars

\* C1: the app is armed again after a crash was detected, confirmed by the
\* countdown, captured and reset
C1_Witness ==
  /\ appState = "ARMED"
  /\ armedMounted
  /\ savedPacket
  /\ lastReading # <<>>

\* C11: every entry into Confirming starts the countdown at 5 with a fresh
\* timer, and Triggered is entered when exactly 5 one-second ticks have gone
\* by since the entry: no time run by a timer was lost to a re-render
C11_CountdownExact ==
  [][/\ (appState # "CONFIRMING" /\ appState' = "CONFIRMING") =>
          (countdown' = COUNTDOWN_START /\ tickTimer' = 0 /\ ~timerLost')
     /\ (appState = "CONFIRMING" /\ appState' = "TRIGGERED") =>
          (countdown = 0 /\ ~timerLost)]_vars

\* C12: once Confirming is entered and the user never cancels, the state
\* eventually becomes Triggered, whatever motion events and re-renders occur
C12_ConfirmingLeadsToTriggered ==
  (appState = "CONFIRMING") ~> (appState = "TRIGGERED")

\* C13: a cancel in Confirming sets the state to Armed with the sample buffer
\* empty, the detection flag false and no countdown timer pending; Armed
\* never steps to Triggered, and the Confirming entered next counts down from
\* 5 with a timer of its own
C13_CancelDiscardsCountdown ==
  [][/\ (appState = "CONFIRMING" /\ returnedBy' = "cancel") =>
          /\ appState' = "ARMED"
          /\ sensorBuffer' = <<>>
          /\ ~isCrashDetected'
          /\ tickTimer' = 0
     /\ appState = "ARMED" =>
          /\ appState' # "TRIGGERED"
          /\ tickTimer = 0
          /\ appState' = "CONFIRMING" =>
                (countdown' = COUNTDOWN_START /\ tickTimer' = 0)]_vars

\* C13: a Confirming has just been cancelled, the sensor having delivered a
\* tenth reading or a later one before
C13_Witness ==
  /\ returnedBy = "cancel"
  /\ appState = "ARMED"
  /\ lastReading # <<>>
  /\ lastReading[1].rotationAlpha >= ROTATION_THRESHOLD

\* C14: Triggered is left only by the reset, to Armed, with the sample
\* buffer empty and the detection flag false; a detection that leads from
\* Armed to Confirming was made over readings pushed since
C14_OnlyResetLeavesTriggered ==
  [][/\ (appState = "TRIGGERED" /\ appState' # "TRIGGERED") =>
          /\ returnedBy' = "reset"
          /\ appState' = "ARMED"
          /\ sensorBuffer' = <<>>
          /\ ~isCrashDetected'
     /\ (appState = "ARMED" /\ isCrashDetected /\ appState' = "CONFIRMING") =>
          Len(sensorBuffer) >= MIN_BUFFER_LENGTH]_vars

\* C14: a Triggered whose capture was saved has just been reset, the sensor
\* having delivered a tenth reading or a later one before
C14_Witness ==
  /\ returnedBy = "reset"
  /\ appState = "ARMED"
  /\ savedPacket
  /\ lastReading # <<>>
  /\ lastReading[1].rotationAlpha >= ROTATION_THRESHOLD

\* C15: a step in Confirming or Triggered that sets the detection flag leaves
\* the app state, the countdown with its running timer and the capture as
\* they were, and the flag is false whenever the app returns to Armed
C15_DetectionIgnoredOutsideArmed ==
  [][/\ (appState \in {"CONFIRMING", "TRIGGERED"}
           /\ ~isCrashDetected /\ isCrashDetected') =>
          /\ appState' = appState
          /\ countdown' = countdown
          /\ tickTimer' = tickTimer
          /\ capturePc' = capturePc
          /\ isCapturing' = isCapturing
     /\ (appState # "ARMED" /\ appState' = "ARMED") => ~isCrashDetected']_vars

\* C16: the detection flag, once set, is cleared only by a cancel, a reset or
\* a startMonitoring (at its call or when its permission request is granted),
\* never by a later analysis; and a set flag in Armed leads to Confirming
C16_DetectionLeadsToConfirming ==
  /\ [][(isCrashDetected /\ ~isCrashDetected') =>
          \/ handleCancelAlert
          \/ handleReset
          \/ ArmedMount
          \/ handleStartMonitoring
          \/ PermissionSettles]_vars
  /\ (appState = "ARMED" /\ isCrashDetected) ~> (appState = "CONFIRMING")

\* C16: the flag set in Armed has led to Confirming and is still set after
\* analyses of a buffer too short to be positive
C16_Witness ==
  /\ appState = "CONFIRMING"
  /\ isCrashDetected
  /\ sensorBuffer # <<>>
  /\ Len(sensorBuffer) < MIN_BUFFER_LENGTH

\* C17: while a capture is running no acquisition of an earlier capture is
\* still in progress, and the running capture is neither cancelled nor cut
\* short by a reset: the app stays in Triggered until it has settled
C17_OneCaptureAtATime ==
  [][/\ CaptureRunning => leftover = {}
     /\ capturePc = "running" =>
          /\ appState' = "TRIGGERED"
          /\ capturePc' \in {"running", "done"}]_vars

\* C18: when a capture has settled, it has failed exactly if the photo
\* failed, whatever became of the alert sound, the location and the audio;
\* the packet of one that succeeded has three null coordinates exactly if the
\* location failed and the signature 'audio_unavailable' if the audio failed
C18_OnlyPhotoFailureIsFatal ==
  (appState = "TRIGGERED" /\ capturePc = "done") =>
    /\ error <=> "photo" \in failed
    /\ trustPacket <=> "photo" \notin failed
    /\ trustPacket =>
         /\ sealed # <<>>
         /\ "location" \in failed <=>
              sealed[1].location =
                [latitude |-> <<>>, longitude |-> <<>>, accuracy |-> <<>>]
         /\ "audio" \in failed =>
              sealed[1].evidence.audioSignature = "audio_unavailable"

\* C18: a capture has produced a packet although the alert sound, the
\* location and the audio signature all failed
C18_Witness ==
  /\ appState = "TRIGGERED"
  /\ capturePc = "done"
  /\ trustPacket
  /\ failed = {"sound", "location", "audio"}

\* C19: the step in which the photo fails shows an error and produces and
\* saves no packet, and a Triggered whose capture has failed is left for
\* Armed or Confirming
C19_PhotoFailureLeavesTriggered ==
  /\ [][("photo" \notin failed /\ "photo" \in failed') =>
          /\ error'
          /\ ~trustPacket'
          /\ sealed' = sealed
          /\ savedRecord' = savedRecord]_vars
  /\ (appState = "TRIGGERED" /\ capturePc = "done" /\ error)
       ~> (appState \in {"ARMED", "CONFIRMING"})

\* C20: the hash of a packet just sealed is the digest of the serialization
\* of its other fields, and it equals the hash of the packet saved before
\* exactly if the two packets agree in every other field
C20_SealDeterministicTamperEvident ==
  [][(sealed' # sealed /\ sealed' # <<>>) =>
       /\ sealed'[1].hash = SHA256(JSONstringify(Fields(sealed'[1])))
       /\ savedRecord # <<>> =>
            (Fields(sealed'[1]) = Fields(savedRecord[1])
               <=> sealed'[1].hash = savedRecord[1].hash)]_vars

\* C21: the text that the copy for verification puts on the clipboard is the
\* serialization hashed when the packet was sealed, so that its SHA-256 is
\* the packet's hash
C21_VerificationTextReproducesDigest ==
  [][(clipboard' # clipboard
        /\ sealed[1].hash = SHA256(JSONstringify(Fields(sealed[1])))) =>
       /\ clipboard' = JSONstringify(Fields(sealed[1]))
       /\ SHA256(clipboard') = sealed[1].hash]_vars

\* C22: the packet captureEvidence returned carries as its hash the SHA-256
\* of the serialization of its other fields, never a placeholder
C22_DigestNeverPlaceholder ==
  sealed # <<>> =>
    /\ sealed[1].hash = SHA256(JSONstringify(Fields(sealed[1])))
    /\ sealed[1].hash # <<"hash_unavailable">>

\* C23: while Triggered shows a captured packet, localStorage holds that
\* packet under 'boda_trust_packet' and its hash under 'boda_trust_hash'
C23_CapturedPacketIsStored ==
  (appState = "TRIGGERED" /\ capturePc = "done" /\ trustPacket) =>
    /\ savedRecord = sealed
    /\ savedHash = sealed[1].hash

\* a capture of TriggeredState has ended with a trust packet
CaptureSucceeded == appState = "TRIGGERED" /\ capturePc = "done" /\ trustPacket

\* an alert is in the offline queue
AlertQueued ==
  \E k \in DOMAIN storage : storage[k].type = "emergency_sms"

\* C4: once a capture in Triggered has succeeded, an alert has been sent to
\* the channel or an alert item is in the offline queue
C4_CaptureHandedToDispatch ==
  CaptureSucceeded => alertRequested \/ AlertQueued

\* ------------------------------------------------------------------------
\* The offline queue's dispatch history
\* ------------------------------------------------------------------------
\* drains whose request for the item is in flight
InFlight(id) ==
  Cardinality({d \in 1 .. MaxDrains :
                 drains[d].pc = "send" /\ drains[d].queue[drains[d].i].id = id})

\* dispatches of an undelivered item that have failed: every attempt that has
\* settled
FailedAttempts(id) == attempts[id] - InFlight(id)

\* C2: across any number of processQueue calls no item's dispatch is attempted
\* more than 3 times in total, also when every item of a drain fails
C2_AtMostThreeAttempts == \A id \in ItemIds : attempts[id] <= MAX_RETRIES

\* C3: an item of either kind leaves the persisted queue only once its
\* dispatch has succeeded or three of its dispatches have failed, unless
\* clearQueue removed it
C3_NoUndeliveredDrop ==
  [][\A id \in StoredIds :
       id \notin StoredIds' =>
         \/ id \in delivered'
         \/ FailedAttempts(id)' >= MAX_RETRIES
         \/ clearQueue]_vars

\* the ids of the items a drain took its copy of
CopiedIds(d) == {drains[d].queue[k].id : k \in DOMAIN drains[d].queue}

\* the step in which drain d returns
DrainEnds(d) == drains[d].pc # "idle" /\ drains'[d].pc = "idle"

\* C24: an item enqueued while a drain was suspended at a dispatch, which
\* that drain's copy therefore does not hold, is still in the persisted queue
\* after the step in which the drain writes back and returns
C24_NoLostUpdate ==
  [][\A d \in 1 .. MaxDrains :
       DrainEnds(d) =>
         \A id \in StoredIds \ CopiedIds(d) : id \in StoredIds']_vars

\* C25: an item whose dispatch has succeeded is never dispatched again, by a
\* later drain or by a drain that overlaps the one that delivered it
C25_NoDuplicateSend ==
  [][\A id \in delivered : attempts'[id] = attempts[id]]_vars

\* the retry count persisted for an item of the queue stored
StoredRetryCount(stored, id) ==
  LET k == CHOOSE k \in DOMAIN stored : stored[k].id = id
  IN  stored[k].retryCount

\* drain d returns in this step from a dispatch that failed, of an item it
\* keeps and whose persisted count is still the one the drain started from
FailedAndKept(d) ==
  /\ drains[d].pc = "send"
  /\ DrainEnds(d)
  /\ delivered' = delivered
  /\ LET item == drains[d].queue[drains[d].i]
     IN  /\ item.id \notin delivered
         /\ item.retryCount + 1 < MAX_RETRIES
         /\ item.id \in StoredIds
         /\ StoredRetryCount(storage, item.id) = item.retryCount

\* C26: when a drain returns after the dispatch of an item failed and the
\* item was kept, the item is persisted with an attempt count one higher than
\* before the drain, whether or not the drain removed another item
C26_FailureCountPersisted ==
  [][\A d \in 1 .. MaxDrains :
       FailedAndKept(d) =>
         LET item == drains[d].queue[drains[d].i]
         IN  /\ item.id \in StoredIds'
             /\ StoredRetryCount(storage', item.id) = item.retryCount + 1]_vars

\* what the hook hands to its caller besides its functions; processQueue
\* itself resolves to undefined on every path and catches what a dispatch
\* throws
Observable == <<isOnline, queueSize>>

\* drain d returns in this step from a failed dispatch that used up the
\* item's last retry, and so removes the item
ExhaustedAndRemoved(d) ==
  /\ drains[d].pc = "send"
  /\ DrainEnds(d)
  /\ delivered' = delivered
  /\ LET item == drains[d].queue[drains[d].i]
     IN  /\ item.id \notin delivered
         /\ item.retryCount + 1 >= MAX_RETRIES
         /\ item.id \notin StoredIds'

\* what the caller could observe had that last dispatch succeeded instead
ObservableHadItSucceeded(d) ==
  LET dr   == drains[d]
      done == dr.processedIds \cup {dr.queue[dr.i].id}
  IN  <<isOnline, Len(SelectSeq(dr.queue, LAMBDA it : it.id \notin done))>>

\* C27: a drain that removes an item because its retries are used up lets
\* the caller tell so: with processQueue returning nothing and raising
\* nothing, the state the hook exposes differs from the state the same drain
\* leaves when the dispatch succeeds
C27_PermanentFailureSurfaced ==
  [][\A d \in 1 .. MaxDrains :
       ExhaustedAndRemoved(d) => Observable' # ObservableHadItSucceeded(d)]_vars

\* the position of the first alert item of a queue at or after position i,
\* Len(queue) + 1 when there is none
NextAlert(queue, i) ==
  SmallestOf({k \in i .. Len(queue) : queue[k].type = "emergency_sms"}
               \cup {Len(queue) + 1})

\* the ids of a queue in its order
IdsInOrder(queue) == [k \in DOMAIN queue |-> queue[k].id]

\* the ids of the trust packets of a queue at positions from .. to - 1
PacketsBetween(queue, from, to) ==
  {queue[k].id : k \in {j \in from .. (to - 1) : queue[j].type = "trust_packet"}}

\* drain d goes from position i of its copy to the next alert item in
\* enqueue order, taking the trust packets on the way, or returns when there
\* is none
MovesOn(d, i) ==
  LET queue == IF drains[d].pc = "idle" THEN storage ELSE drains[d].queue
      next  == NextAlert(queue, i)
  IN  IF next <= Len(queue)
        THEN /\ drains'[d].pc = "import"
             /\ drains'[d].i = next
             /\ IdsInOrder(drains'[d].queue) = IdsInOrder(queue)
             /\ PacketsBetween(queue, i, next) \subseteq drains'[d].processedIds
        ELSE drains'[d].pc = "idle"

MountedOnlineWithAlert ==
  /\ navOnline
  /\ NoDrainRunning
  /\ \E k \in DOMAIN storage : storage[k].type = "emergency_sms"
  /\ \A id \in ItemIds : attempts[id] = 0

\* C29: when the hook mounts online on a persisted queue that holds an
\* alert, a drain is eventually started: a call of processQueue is suspended
\* at the alert's dispatch, or the dispatch of an item has been attempted,
\* unless the connection is lost or the queue is emptied first
C29_DrainAtStartup ==
  MountedOnlineWithAlert =>
    <>(\/ ~NoDrainRunning
       \/ \E id \in ItemIds : attempts[id] > 0
       \/ ~navOnline
       \/ storage = <<>>)

\* a dispatch fails in this step
DispatchFails == \E d \in 1 .. MaxDrains : DrainSettle(d, FALSE)

\* the item is out of the queue one way or another, or the model's cap on
\* its dispatches is reached
Disposed(id) ==
  \/ id \in delivered
  \/ id \notin StoredIds
  \/ attempts[id] >= MaxAttempts

\* C30: if the connection is eventually up for good and from some point on
\* no dispatch fails, every item that is in the persisted queue is eventually
\* delivered or out of the queue
C30_EventualDelivery ==
  (<>[]navOnline /\ <>[][~DispatchFails]_vars) =>
    \A id \in ItemIds : (id \in StoredIds) ~> Disposed(id)

\* C31: with no processQueue call in progress, the queue size the hook
\* exposes is the number of items in the persisted queue, whichever of
\* addToQueue, processQueue, clearQueue and the offline sendEmergencySMS ran
C31_QueueSizeMatchesStorage ==
  NoDrainRunning => queueSize = Len(storage)

\* C32: a call of sendEmergencySMS while the device is offline leaves the
\* channel alone, appends one emergency_sms item with retry count 0 to the
\* persisted queue and ends with the 'queued' result, never with a throw
C32_OfflineSendQueues ==
  [][(~navOnline /\ \E readable \in BOOLEAN : sendEmergencySMS(readable)) =>
       /\ storage' = Append(storage, QueuedItem(nextId, "emergency_sms"))
       /\ smsResult' = "queued"
       /\ alertRequested' = alertRequested]_vars

\* C36: addToQueue appends one new item with retry count 0 at the tail of
\* the persisted queue and keeps every item that was there, in its order,
\* also when the stored queue cannot be read back
C36_EnqueueAppendsOnly ==
  [][(\E type \in ItemTypes, readable \in BOOLEAN : addToQueue(type, readable)) =>
       \E type \in ItemTypes : storage' = Append(storage, QueuedItem(nextId, type))]_vars

\* C33: through any sequence of arm, disarm, re-arm, trigger, cancel and
\* reset at most one 'devicemotion' listener is registered, so that an event
\* pushes at most one reading
C33_AtMostOneListener ==
  Cardinality(listeners) <= 1

\* C37: the disarm control leaves no 'devicemotion' listener registered and
\* the buffer empty: the stop removes the listener the start registered
C37_DisarmStopsSampling ==
  [][handleStopMonitoring => (listeners' = {} /\ sensorBuffer' = <<>>)]_vars

\* C38: while the state is Confirming or Triggered no 'devicemotion'
\* listener is registered, also when a startMonitoring that was waiting for
\* the permission resumes after ArmedState has left
C38_NoListenerOutsideArmed ==
  appState \in {"CONFIRMING", "TRIGGERED"} => listeners = {}

\* C34: a capture that is running eventually completes or fails, so that
\* TriggeredState stops showing the capture in progress and offers the reset
C34_CaptureTerminates ==
  CaptureRunning ~> (appState = "TRIGGERED" /\ ~isCapturing)

\* C35: a capture goes through its steps in order: the alert comes first
\* with no acquisition started; the acquisitions start together from the
\* golden second, at least 1000 ms after the start; the packet is built when
\* none of the three is outstanding and the photo is there; and its
\* captureDelay is the time since the start, at least 1000 ms
C35_CaptureStepsOrdered ==
  [][/\ (CaptureRunning /\ capStep = "idle" /\ capStep' # "idle") =>
          (capStep' = "golden" /\ acquiring' = {})
     /\ (acquiring = {} /\ acquiring' # {}) =>
          /\ capStep = "golden"
          /\ acquiring' = Acquisitions
          /\ elapsed' >= GOLDEN_SECOND_MS
     /\ (sealed' # sealed /\ sealed' # <<>>) =>
          /\ capStep = "seal"
          /\ acquiring = {}
          /\ sealed'[1].evidence.photo # ""
          /\ sealed'[1].metadata.captureDelay = elapsed
          /\ sealed'[1].metadata.captureDelay >= GOLDEN_SECOND_MS]_vars

\* a capture has returned a packet whose alert sound and audio signature
\* failed at once: its captureDelay is the golden second alone
C35_Witness ==
  /\ appState = "TRIGGERED"
  /\ capturePc = "done"
  /\ trustPacket
  /\ sealed # <<>>
  /\ sealed[1].metadata.captureDelay = GOLDEN_SECOND_MS

\* drain d returns in this step from a sendEmergencySMS that found the
\* device offline and queued the alert again instead of sending it
QueuedAgainAtEnd(d) ==
  /\ drains[d].pc = "import"
  /\ ~navOnline
  /\ DrainEnds(d)

\* C39: when a drain returns after the device went offline before the send
\* of an alert, the alert is in the persisted queue exactly once: as the item
\* the drain took or as the one sendEmergencySMS queued in its place
C39_NoAlertLostOffline ==
  [][\A d \in 1 .. MaxDrains :
       QueuedAgainAtEnd(d) =>
         Cardinality({k \in DOMAIN storage' :
                        /\ storage'[k].type = "emergency_sms"
                        /\ storage'[k].id \in
                             {drains[d].queue[drains[d].i].id, nextId}}) = 1]_vars

\* C40: the SMS endpoint admits at most 5 requests of the user between two
\* resets of the user's window, whatever the interleaving of the requests;
\* a refused request leaves the row as it is; a request made after the
\* reset time sets the count to 1 and the reset time one hour after its now
C40_RateLimitHolds ==
  [][/\ admitted' <= MAX_SMS_PER_HOUR
     /\ \A r \in Requests :
          checkAndUpdateRateLimit(r) =>
            /\ LimitReached(r) => sms_rate_limits' = sms_rate_limits
            /\ WindowOver(r) =>
                 sms_rate_limits' =
                   <<LimitRow(1, requests[r].now + HOUR_MS)>>]_vars

\* ------------------------------------------------------------------------
\* The detector's gates, read off the analysed state: the buffer after the
\* push and the clock value analyzeBuffer compared the timestamps with
\* ------------------------------------------------------------------------
\* the handler ran to its analyzeBuffer call
Analysed == detectorPc = "analysed" /\ lastReading # <<>>

AnalysedWindow ==
  {i \in DOMAIN sensorBuffer :
     now - sensorBuffer[i].timestamp <= SUSTAINED_DURATION_MS}

WindowPopulation == Cardinality(AnalysedWindow)

QualifyingCount ==
  Cardinality({i \in AnalysedWindow :
    LET r == sensorBuffer[i]
    IN  r.accelerationX * r.accelerationX + r.accelerationY * r.accelerationY
          + r.accelerationZ * r.accelerationZ
          > HIGH_G_THRESHOLD * HIGH_G_THRESHOLD})

\* largest change about the three axes between the window's first and last
\* reading
RotationDelta ==
  IF AnalysedWindow = {} THEN 0
  ELSE LET first == sensorBuffer[SmallestOf(AnalysedWindow)]
           last  == sensorBuffer[CHOOSE i \in AnalysedWindow :
                                   \A j \in AnalysedWindow : j <= i]
           changes == {Abs(last.rotationAlpha - first.rotationAlpha),
                       Abs(last.rotationBeta - first.rotationBeta),
                       Abs(last.rotationGamma - first.rotationGamma)}
       IN  CHOOSE c \in changes : \A d \in changes : d <= c

\* C5: the detector returns true only when the analysed window holds at
\* least 5 readings, at least 3 of them exceed the G threshold and the
\* change of rotation reaches the rotation gate; with any one gate failing
\* the result is false
C5_TrueOnlyWhenAllGatesPass ==
  (Analysed /\ isCrashDetected) =>
    /\ WindowPopulation >= MIN_RECENT_READINGS
    /\ QualifyingCount >= MIN_HIGH_G_READINGS
    /\ RotationDelta >= ROTATION_THRESHOLD

C5_Witness ==
  /\ Analysed
  /\ isCrashDetected
  /\ RotationDelta = 120

\* C6: whenever the three gates pass the detector returns true, whatever
\* the number of older readings in the buffer
C6_GatesPassImpliesCrash ==
  ( /\ Analysed
    /\ WindowPopulation >= MIN_RECENT_READINGS
    /\ QualifyingCount >= MIN_HIGH_G_READINGS
    /\ RotationDelta > ROTATION_THRESHOLD ) => isCrashDetected

\* C7: a change of rotation of at most 90 is never a crash
C7_RotationGateExclusive ==
  (Analysed /\ RotationDelta <= ROTATION_THRESHOLD) => ~isCrashDetected

\* C8: with fewer than 5 readings in the window, or fewer than 3 of them
\* above the G threshold, the detector returns false and the detection flag
\* stays unset, whatever the readings hold; an empty buffer gives false too
C8_InsufficientDataIsNegative ==
  /\ ( /\ detectorPc = "analysed"
       /\ \/ WindowPopulation < MIN_RECENT_READINGS
          \/ QualifyingCount < MIN_HIGH_G_READINGS ) => ~isCrashDetected
  /\ ~analyzeBuffer(<<>>, now)

C8_Witness ==
  /\ Analysed
  /\ Len(sensorBuffer) >= MIN_BUFFER_LENGTH
  /\ WindowPopulation = MIN_RECENT_READINGS - 1
  /\ QualifyingCount >= MIN_HIGH_G_READINGS
  /\ RotationDelta > ROTATION_THRESHOLD
  /\ ~isCrashDetected

\* the readings at most 100 ms older than the latest one
LatestSuffix ==
  LET latest == sensorBuffer[Len(sensorBuffer)]
      start  == SmallestOf({i \in DOMAIN sensorBuffer :
                  \A j \in i .. Len(sensorBuffer) :
                    latest.timestamp - sensorBuffer[j].timestamp
                      <= SUSTAINED_DURATION_MS})
  IN  SubSeq(sensorBuffer, start, Len(sensorBuffer))

\* C10: the window the detector analyses is the suffix of readings within
\* 100 ms of the latest reading's timestamp, in arrival order
C10_WindowAnchoredToLatestReading ==
  Analysed => recentReadings(sensorBuffer, now) = LatestSuffix

\* the newest n readings of a sequence
Newest(seq, n) == SubSeq(seq, Len(seq) - n + 1, Len(seq))

\* a step that pushed: only a push leaves a buffer that is not empty and
\* differs from the one before
Pushed == sensorBuffer' # sensorBuffer /\ sensorBuffer' # <<>>

\* C9: the buffer never holds more than 100 readings; each registered
\* listener pushes one reading per event, a push onto a full buffer removes
\* exactly the oldest reading and keeps the others in arrival order, and a
\* push onto any other buffer removes nothing
C9_BufferBoundedFifo ==
  [][ /\ Len(sensorBuffer') <= BUFFER_SIZE
      /\ Pushed =>
           LET k    == Cardinality(listeners)
               room == BUFFER_SIZE - Len(sensorBuffer)
               kept == IF k <= room THEN Len(sensorBuffer)
                       ELSE Len(sensorBuffer) - (k - room)
           IN  /\ Len(sensorBuffer') = kept + k
               /\ SubSeq(sensorBuffer', 1, kept) = Newest(sensorBuffer, kept)
               /\ \A i \in (kept + 1) .. (kept + k) :
                    /\ sensorBuffer'[i].timestamp >= now
                    /\ sensorBuffer'[i].timestamp <= now'
               /\ lastReading' = <<sensorBuffer'[kept + k]>> ]_vars

\* a push onto a full buffer happened: the oldest reading left and the
\* second oldest is now the first
C9_Witness ==
  /\ Len(sensorBuffer) = BUFFER_SIZE
  /\ sensorBuffer[1].rotationAlpha > 0
  /\ lastReading = <<sensorBuffer[BUFFER_SIZE]>>

====
